---- MODULE Spec2Model ----
(***************************************************************************)
(* Alert notification path of probes/alerting/notify.go:                   *)
(*   alertFields, AlertHandler.notify, AlertHandler.notifyCommand.         *)
(*                                                                         *)
(* Strings.  A Go string that is scanned (a command line, a field value,   *)
(* a JSON text) is a sequence of atoms.  An atom is a TLA+ string standing *)
(* either for one special character (space, newline, ', ", \, #) or for a  *)
(* run of ordinary characters.  A Go string that is only compared (a map   *)
(* key, a word of an argument vector, a log argument) is a TLA+ string,    *)
(* built with \o.                                                          *)
(***************************************************************************)
EXTENDS Integers, Sequences, FiniteSets, TLC

(***************************************************************************)
(* Bounds of the model.                                                    *)
(***************************************************************************)
\* calls made in a run: notify calls of all targets and direct notifyCommand calls
MaxCalls == 2
\* capacity of the buffered notification channel
ChanCap == 1

(***************************************************************************)
(* Small helpers on sequences and strings.                                 *)
(***************************************************************************)
RECURSIVE Flatten(_)
\* concatenation of the atoms of a scanned string into one compared string
Flatten(s) == IF s = <<>> THEN "" ELSE Head(s) \o Flatten(Tail(s))

RECURSIVE Join(_, _)
\* strings.Join(words, sep)
Join(words, sep) ==
    IF words = <<>> THEN ""
    ELSE IF Len(words) = 1 THEN words[1]
    ELSE words[1] \o sep \o Join(Tail(words), sep)

Digit(d) == CASE d = 0 -> "0" [] d = 1 -> "1" [] d = 2 -> "2" [] d = 3 -> "3"
              [] d = 4 -> "4" [] d = 5 -> "5" [] d = 6 -> "6" [] d = 7 -> "7"
              [] d = 8 -> "8" [] d = 9 -> "9"

RECURSIVE Itoa(_)
\* strconv.Itoa for a non-negative int: its decimal digits, most significant first
Itoa(n) == IF n < 10 THEN <<Digit(n)>> ELSE Itoa(n \div 10) \o <<Digit(n % 10)>>

\* time.Time.Format(time.RFC3339) of an instant given as seconds (0..59)
\* after 1970-01-01T00:00:00Z: the seconds are zero-padded to two digits
FormatRFC3339(t) ==
    <<"1970-01-01T00:00:", Digit(t \div 10), Digit(t % 10), "Z">>

(***************************************************************************)
(* endpoint.Endpoint: display name, destination accessor, labels.          *)
(***************************************************************************)
Dst(ep) == ep.dst

(***************************************************************************)
(* encoding/json of a map[string]string: keys in sorted order, every key   *)
(* and value quoted, " and \ escaped with a backslash, a byte that is not   *)
(* valid UTF-8 (the atom "<0xE9>") written as the escape \ufffd.  The      *)
(* decoder is json.Unmarshal into a map[string]string; it reads \ufffd as  *)
(* the replacement character U+FFFD (the atom "<U+FFFD>").                 *)
(***************************************************************************)
\* every key a field mapping of this model can hold, in byte order
KeyOrder ==
    <<"alert", "condition_id", "failures", "json", "probe", "since", "target",
      "target.label.env", "target.label.zone", "total">>

RECURSIVE JSONEscape(_)
JSONEscape(s) ==
    IF s = <<>> THEN <<>>
    ELSE (IF Head(s) \in {"\"", "\\"} THEN <<"\\", Head(s)>>
          ELSE IF Head(s) = "<0xE9>" THEN <<"\\", "ufffd">>
          ELSE <<Head(s)>>)
         \o JSONEscape(Tail(s))

RECURSIVE JSONMembers(_, _, _)
JSONMembers(m, i, first) ==
    IF i > Len(KeyOrder) THEN <<>>
    ELSE IF KeyOrder[i] \notin DOMAIN m THEN JSONMembers(m, i + 1, first)
    ELSE (IF first THEN <<>> ELSE <<",">>)
         \o <<"\"", KeyOrder[i], "\"", ":", "\"">> \o JSONEscape(m[KeyOrder[i]])
         \o <<"\"">> \o JSONMembers(m, i + 1, FALSE)

\* json.Marshal(fields): the text, when the encoder reports no error
MarshalJSON(m) == <<"{">> \o JSONMembers(m, 1, TRUE) \o <<"}">>

\* a nil or empty map is the empty function
NilMap == <<>>

\* the character an escape sequence stands for
JSONUnescape(c) == IF c = "ufffd" THEN "<U+FFFD>" ELSE c

RECURSIVE JSONString(_, _, _)
\* a string of the text from its first atom after the opening quote:
\* the decoded value and the position after the closing quote
JSONString(text, i, value) ==
    IF text[i] = "\"" THEN [value |-> value, next |-> i + 1]
    ELSE IF text[i] = "\\"
         THEN JSONString(text, i + 2, Append(value, JSONUnescape(text[i + 1])))
    ELSE JSONString(text, i + 1, Append(value, text[i]))

RECURSIVE JSONObject(_, _, _)
JSONObject(text, i, m) ==
    IF text[i] = "}" THEN m
    ELSE IF text[i] = "," THEN JSONObject(text, i + 1, m)
    ELSE LET key == JSONString(text, i + 1, <<>>)
             val == JSONString(text, key.next + 2, <<>>)
             name == Flatten(key.value)
         IN  JSONObject(text, val.next,
                        [k \in DOMAIN m \cup {name} |->
                            IF k = name THEN val.value ELSE m[k]])

\* json.Unmarshal(text, &m) for m a map[string]string
UnmarshalJSON(text) == JSONObject(text, 2, NilMap)

(***************************************************************************)
(* alertFields (notify.go 42-65).  jsonOk is the outcome of json.Marshal.  *)
(***************************************************************************)
LabelKey(k) == "target.label." \o k

BaseFields(alertInfo) ==
    LET reserved ==
            [alert        |-> alertInfo.Name,
             probe        |-> alertInfo.ProbeName,
             target       |-> Dst(alertInfo.Target),
             condition_id |-> alertInfo.ConditionID,
             failures     |-> Itoa(alertInfo.Failures),
             total        |-> Itoa(alertInfo.Total),
             since        |-> FormatRFC3339(alertInfo.FailingSince)]
        labels == alertInfo.Target.Labels
        keys == DOMAIN reserved \cup {LabelKey(k) : k \in DOMAIN labels}
    IN  [key \in keys |->
            IF \E k \in DOMAIN labels : LabelKey(k) = key
            THEN labels[CHOOSE k \in DOMAIN labels : LabelKey(k) = key]
            ELSE reserved[key]]

alertFields(alertInfo, jsonOk) ==
    LET fields == BaseFields(alertInfo)
    IN  IF ~jsonOk
        THEN [fields |-> NilMap, err |-> TRUE]
        ELSE [fields |-> [key \in DOMAIN fields \cup {"json"} |->
                            IF key = "json" THEN MarshalJSON(fields)
                            ELSE fields[key]],
              err |-> FALSE]

RECURSIVE RangeLabels(_, _, _)
\* lines 53-55: the range over the labels, visited in the given order
RangeLabels(fields, labels, order) ==
    IF order = <<>> THEN fields
    ELSE LET key == LabelKey(Head(order))
         IN  RangeLabels([k \in DOMAIN fields \cup {key} |->
                             IF k = key THEN labels[Head(order)] ELSE fields[k]],
                         labels, Tail(order))

\* lines 43-51: the seven fields set from the AlertInfo
ReservedFields(alertInfo) ==
    [alert        |-> alertInfo.Name,
     probe        |-> alertInfo.ProbeName,
     target       |-> Dst(alertInfo.Target),
     condition_id |-> alertInfo.ConditionID,
     failures     |-> Itoa(alertInfo.Failures),
     total        |-> Itoa(alertInfo.Total),
     since        |-> FormatRFC3339(alertInfo.FailingSince)]

\* fault variant: the labels are stored under their bare names
alertFieldsBareLabels(alertInfo, order, jsonOk) ==
    LET labels == alertInfo.Target.Labels
        fields == [k \in DOMAIN ReservedFields(alertInfo) \cup DOMAIN labels |->
                      IF k \in DOMAIN labels THEN labels[k]
                      ELSE ReservedFields(alertInfo)[k]]
    IN  IF ~jsonOk
        THEN [fields |-> NilMap, err |-> TRUE]
        ELSE [fields |-> [key \in DOMAIN fields \cup {"json"} |->
                            IF key = "json" THEN MarshalJSON(fields)
                            ELSE fields[key]],
              err |-> FALSE]

\* fault variant: the json key is in the mapping when it is encoded
alertFieldsSelfReference(alertInfo, order, jsonOk) ==
    LET fields == RangeLabels(ReservedFields(alertInfo),
                              alertInfo.Target.Labels, order)
        withJSON == [key \in DOMAIN fields \cup {"json"} |->
                        IF key = "json" THEN <<>> ELSE fields[key]]
    IN  IF ~jsonOk
        THEN [fields |-> NilMap, err |-> TRUE]
        ELSE [fields |-> [withJSON EXCEPT !["json"] = MarshalJSON(withJSON)],
              err |-> FALSE]

\* alertFields with the iteration order of the range over the label map
\* (which Go leaves unspecified) given as a sequence of the label names
alertFieldsRange(alertInfo, order, jsonOk) ==
    LET fields == RangeLabels(ReservedFields(alertInfo),
                              alertInfo.Target.Labels, order)
    IN  IF ~jsonOk
        THEN [fields |-> NilMap, err |-> TRUE]
        ELSE [fields |-> [key \in DOMAIN fields \cup {"json"} |->
                            IF key = "json" THEN MarshalJSON(fields)
                            ELSE fields[key]],
              err |-> FALSE]

(***************************************************************************)
(* strtemplate.SubstituteLabels.  A command template is a sequence of      *)
(* elements: a literal atom, or a placeholder naming a field.  A resolved  *)
(* placeholder is replaced by the field's value; an unresolved one is left *)
(* in place as literal text and makes foundAll false.                      *)
(***************************************************************************)
Lit(a) == [k |-> "lit", v |-> a]
PH(key) == [k |-> "ph", v |-> key]

PlaceholderText(key) == "{{" \o key \o "}}"

RECURSIVE SubstituteText(_, _)
SubstituteText(in, labels) ==
    IF in = <<>> THEN <<>>
    ELSE LET e == Head(in)
         IN  (IF e.k = "lit" THEN <<e.v>>
              ELSE IF e.v \in DOMAIN labels THEN labels[e.v]
              ELSE <<PlaceholderText(e.v)>>)
             \o SubstituteText(Tail(in), labels)

SubstituteLabels(in, labels) ==
    [res      |-> SubstituteText(in, labels),
     foundAll |-> \A i \in 1..Len(in) :
                     in[i].k = "ph" => in[i].v \in DOMAIN labels]

\* the template as the user wrote it (the argument of the warning log)
TemplateText(in) ==
    Flatten([i \in 1..Len(in) |->
                IF in[i].k = "lit" THEN in[i].v ELSE PlaceholderText(in[i].v)])

(***************************************************************************)
(* shlex.Split (github.com/google/shlex): the tokenizer's state machine.   *)
(* Words are returned as compared strings; comments are dropped; an input  *)
(* that ends inside a quote or after an escape character is an error.      *)
(***************************************************************************)
RuneClass(c) ==
    CASE c \in {" ", "\t", "\r", "\n"} -> "space"
      [] c = "\""                      -> "escapingQuote"
      [] c = "'"                       -> "nonEscapingQuote"
      [] c = "\\"                      -> "escape"
      [] c = "#"                       -> "comment"
      [] OTHER                         -> "unknown"

RECURSIVE Scan(_, _, _, _, _)
Scan(s, i, state, value, words) ==
    IF i > Len(s)
    THEN CASE state = "start"   -> [words |-> words, err |-> FALSE]
           [] state = "inWord"  -> [words |-> Append(words, value), err |-> FALSE]
           [] state = "comment" -> [words |-> words, err |-> FALSE]
           [] OTHER             -> [words |-> words, err |-> TRUE]
    ELSE LET c == s[i]
             cls == RuneClass(c)
         IN  CASE state = "start" ->
                    (CASE cls = "space" -> Scan(s, i + 1, "start", "", words)
                       [] cls = "escapingQuote" -> Scan(s, i + 1, "quotingEscaping", "", words)
                       [] cls = "nonEscapingQuote" -> Scan(s, i + 1, "quoting", "", words)
                       [] cls = "escape" -> Scan(s, i + 1, "escaping", "", words)
                       [] cls = "comment" -> Scan(s, i + 1, "comment", "", words)
                       [] OTHER -> Scan(s, i + 1, "inWord", c, words))
               [] state = "inWord" ->
                    (CASE cls = "space" -> Scan(s, i + 1, "start", "", Append(words, value))
                       [] cls = "escapingQuote" -> Scan(s, i + 1, "quotingEscaping", value, words)
                       [] cls = "nonEscapingQuote" -> Scan(s, i + 1, "quoting", value, words)
                       [] cls = "escape" -> Scan(s, i + 1, "escaping", value, words)
                       [] OTHER -> Scan(s, i + 1, "inWord", value \o c, words))
               [] state = "escaping" -> Scan(s, i + 1, "inWord", value \o c, words)
               [] state = "escapingQuoted" ->
                    Scan(s, i + 1, "quotingEscaping", value \o c, words)
               [] state = "quotingEscaping" ->
                    (CASE cls = "escapingQuote" -> Scan(s, i + 1, "inWord", value, words)
                       [] cls = "escape" -> Scan(s, i + 1, "escapingQuoted", value, words)
                       [] OTHER -> Scan(s, i + 1, "quotingEscaping", value \o c, words))
               [] state = "quoting" ->
                    (CASE cls = "nonEscapingQuote" -> Scan(s, i + 1, "inWord", value, words)
                       [] OTHER -> Scan(s, i + 1, "quoting", value \o c, words))
               [] state = "comment" ->
                    (IF c = "\n" THEN Scan(s, i + 1, "start", "", words)
                     ELSE Scan(s, i + 1, "comment", "", words))

Split(s) == Scan(s, 1, "start", "", <<>>)

(***************************************************************************)
(* Log lines and effects of a call, in the order the code produces them.   *)
(***************************************************************************)
LogLine(lvl, msg, arg) == [kind |-> "log", lvl |-> lvl, msg |-> msg, arg |-> arg]
ExecStart(cmdline) == [kind |-> "exec", lvl |-> "-", msg |-> "cmd.Start", arg |-> cmdline]

(***************************************************************************)
(* AlertHandler.notifyCommand (notify.go 95-121), as a function of its     *)
(* arguments and of the environment: ctxDone (ctx is already cancelled     *)
(* when cmd.Start runs) and startOk (the executable can be started).       *)
(* Result: the trace of log lines and effects, the returned slice (nil is  *)
(* <<>>), whether the call panicked, and the process started, if any.      *)
(***************************************************************************)
\* fault variant: a live call reports how the start went through its result,
\* the argument vector on success
NotifyCommandLiveReportsStart(tr, cmdParts, ctxDone, startOk) ==
    LET ok == startOk /\ ~ctxDone /\ cmdParts[1] # ""
        tr2 == Append(tr, ExecStart(Join(cmdParts, " ")))
    IN  [trace    |-> IF ok THEN tr2
                      ELSE Append(tr2, LogLine("E", "error while starting the cmd",
                                               Join(cmdParts, " "))),
         ret      |-> IF ok THEN cmdParts ELSE <<>>,
         panicked |-> FALSE,
         started  |-> ok,
         argv     |-> cmdParts]

NotifyCommandLive(tr, cmdParts, ctxDone, startOk) ==
    LET ok == startOk /\ ~ctxDone /\ cmdParts[1] # ""
        tr2 == Append(tr, ExecStart(Join(cmdParts, " ")))
    IN  [trace    |-> IF ok THEN tr2
                      ELSE Append(tr2, LogLine("E", "error while starting the cmd",
                                               Join(cmdParts, " "))),
         ret      |-> <<>>,
         panicked |-> FALSE,
         started  |-> ok,
         argv     |-> cmdParts]

\* fault variant: the tokenizer's error is logged but the call goes on with
\* the words read before the error
notifyCommandIgnoreSplitErr(command, flds, dryRun, ctxDone, startOk) ==
    LET sub == SubstituteLabels(command, flds)
        tr1 == IF ~sub.foundAll
               THEN <<LogLine("W", "couldn't substitute all labels in command",
                              TemplateText(command))>>
               ELSE <<>>
        sp  == Split(sub.res)
        tr2 == IF sp.err
               THEN Append(tr1, LogLine("E", "Error parsing command line",
                                        Flatten(sub.res)))
               ELSE tr1
        tr3 == Append(tr2, LogLine("I", "Starting external command", Join(sp.words, " ")))
    IN  IF Len(sp.words) = 0
        THEN [trace |-> tr3, ret |-> <<>>, panicked |-> TRUE, started |-> FALSE,
              argv |-> <<>>]
        ELSE IF dryRun
        THEN [trace |-> tr3, ret |-> sp.words, panicked |-> FALSE, started |-> FALSE,
              argv |-> sp.words]
        ELSE NotifyCommandLive(tr3, sp.words, ctxDone, startOk)

\* fault variant: an unresolved placeholder aborts the call
notifyCommandAbortUnresolved(command, flds, dryRun, ctxDone, startOk) ==
    LET sub == SubstituteLabels(command, flds)
        sp  == Split(sub.res)
        tr2 == <<LogLine("I", "Starting external command", Join(sp.words, " "))>>
    IN  IF ~sub.foundAll
        THEN [trace |-> <<LogLine("W", "couldn't substitute all labels in command",
                                  TemplateText(command))>>,
              ret |-> <<>>, panicked |-> FALSE, started |-> FALSE, argv |-> <<>>]
        ELSE IF sp.err
        THEN [trace |-> <<LogLine("E", "Error parsing command line", Flatten(sub.res))>>,
              ret |-> <<>>, panicked |-> FALSE, started |-> FALSE, argv |-> <<>>]
        ELSE IF Len(sp.words) = 0
        THEN [trace |-> tr2, ret |-> <<>>, panicked |-> TRUE, started |-> FALSE,
              argv |-> <<>>]
        ELSE IF dryRun
        THEN [trace |-> tr2, ret |-> sp.words, panicked |-> FALSE, started |-> FALSE,
              argv |-> sp.words]
        ELSE NotifyCommandLive(tr2, sp.words, ctxDone, startOk)

\* fault variant: a dry run returns the argument vector without logging it
notifyCommandQuietDryRun(command, flds, dryRun, ctxDone, startOk) ==
    LET sub == SubstituteLabels(command, flds)
        tr1 == IF ~sub.foundAll
               THEN <<LogLine("W", "couldn't substitute all labels in command",
                              TemplateText(command))>>
               ELSE <<>>
        sp  == Split(sub.res)
        tr2 == Append(tr1, LogLine("I", "Starting external command", Join(sp.words, " ")))
    IN  IF sp.err
        THEN [trace    |-> Append(tr1, LogLine("E", "Error parsing command line",
                                               Flatten(sub.res))),
              ret |-> <<>>, panicked |-> FALSE, started |-> FALSE, argv |-> <<>>]
        ELSE IF Len(sp.words) = 0
        THEN [trace |-> tr2, ret |-> <<>>, panicked |-> TRUE, started |-> FALSE,
              argv |-> <<>>]
        ELSE IF dryRun
        THEN [trace |-> tr1, ret |-> sp.words, panicked |-> FALSE, started |-> FALSE,
              argv |-> sp.words]
        ELSE NotifyCommandLive(tr2, sp.words, ctxDone, startOk)

notifyCommand(command, flds, dryRun, ctxDone, startOk) ==
    LET sub == SubstituteLabels(command, flds)
        tr1 == IF ~sub.foundAll
               THEN <<LogLine("W", "couldn't substitute all labels in command",
                              TemplateText(command))>>
               ELSE <<>>
        sp  == Split(sub.res)
        tr2 == Append(tr1, LogLine("I", "Starting external command", Join(sp.words, " ")))
    IN  IF sp.err
        THEN [trace    |-> Append(tr1, LogLine("E", "Error parsing command line",
                                               Flatten(sub.res))),
              ret |-> <<>>, panicked |-> FALSE, started |-> FALSE, argv |-> <<>>]
        ELSE IF Len(sp.words) = 0
        THEN \* cmdParts[0] on an empty slice: index out of range
             [trace |-> tr2, ret |-> <<>>, panicked |-> TRUE, started |-> FALSE,
              argv |-> <<>>]
        ELSE IF dryRun
        THEN [trace |-> tr2, ret |-> sp.words, panicked |-> FALSE, started |-> FALSE,
              argv |-> sp.words]
        ELSE NotifyCommandLive(tr2, sp.words, ctxDone, startOk)

(***************************************************************************)
(* The configurations and inputs the model draws from.                     *)
(***************************************************************************)
Targets == {"t1", "t2"}

Endpoint(t) ==
    IF t = "t1"
    THEN [Name |-> "host1", dst |-> <<"host1">>, Labels |-> [env |-> <<"prod">>]]
    ELSE [Name |-> "host2", dst |-> <<"10.0.0.2">>,
          Labels |-> [env |-> <<"it", "'", "s">>, zone |-> <<"z">>]]

\* no direct alertFields call yet
NoFieldsCall ==
    [called |-> FALSE, alertInfo |-> <<>>, order |-> <<>>, fields |-> NilMap,
     err |-> FALSE]

CondID(t) == IF t = "t1" THEN <<"cond-1">> ELSE <<"cond-2">>

Lits(s) == [i \in 1..Len(s) |-> Lit(s[i])]

\* notify.sh --target={{target}} --failures={{failures}}
TplOk ==
    Lits(<<"notify.sh", " ", "--target=">>) \o <<PH("target")>>
    \o Lits(<<" ", "--failures=">>) \o <<PH("failures")>>
\* whitespace only
TplBlank == Lits(<<" ">>)
\* a comment only
TplComment == Lits(<<"#", "notify">>)
\* notify.sh '{{target}}      (the quote is never closed)
TplQuote == Lits(<<"notify.sh", " ", "'">>) \o <<PH("target")>>
\* notify.sh {{owner}}        (no field is named owner)
TplMissing == Lits(<<"notify.sh", " ">>) \o <<PH("owner")>>
\* notify.sh {{target.label.env}} "{{since}}"
TplLabel ==
    Lits(<<"notify.sh", " ">>) \o <<PH("target.label.env")>>
    \o Lits(<<" ", "\"">>) \o <<PH("since")>> \o Lits(<<"\"">>)

Templates == {TplOk, TplBlank, TplComment, TplQuote, TplMissing, TplLabel}

\* ah.notifyConfig: nil, or a configuration with a command (possibly "")
NotifyConfigs ==
    {[isNil |-> TRUE, Command |-> <<>>]}
    \cup {[isNil |-> FALSE, Command |-> c] : c \in Templates \cup {<<>>}}

ChanKinds == {"nil", "unbuffered", "buffered"}
\* the failure count the failure tracking logic reports (above the threshold)
FailureVals == {4}
SinceVals == {7, 42}
Ctxs == {"background", "shutdown"}

(***************************************************************************)
(* State.                                                                  *)
(***************************************************************************)
VARIABLES
    ah,             \* the AlertHandler: name, probeName, condition, notifyCh, notifyConfig
    ts,             \* per-target state: alerted, failingSince, conditionID
    pc,             \* position of each target's notify call
    totalFailures,  \* argument of the notify call in progress
    alertInfo,      \* the AlertInfo built by the call in progress (notify.go 71-79)
    fields,         \* the local fields of the call in progress (notify.go 85)
    trace,          \* log lines and effects of each caller's current or last call
    count,          \* per target: calls begun, ALERT logs, channel pushes,
                    \* notifyCommand calls, returns
    chanQ,          \* buffer of ah.notifyCh
    rcvReady,       \* a consumer is blocked in a receive on ah.notifyCh
    received,       \* what the consumer has received, in order
    procs,          \* external processes started by cmd.Start: ctx, argv, st
    cancelled,      \* the caller's cancellable context is done
    cmdCall,        \* the direct notifyCommand calls: how many, the last one's
                    \* arguments and result
    env,            \* the run's environment: whether json.Marshal succeeds on the
                    \* field sets, whether the executable can be started
    fieldsCall      \* the direct alertFields calls: whether one was made, the
                    \* last one's argument, label iteration order and result

vars == <<ah, ts, pc, totalFailures, alertInfo, fields, trace, count, chanQ,
          rcvReady, received, procs, cancelled, cmdCall, env, fieldsCall>>

Callers == Targets \cup {"cmd"}

NoInfo == [Name |-> <<>>, ProbeName |-> <<>>, ConditionID |-> <<>>,
           Target |-> [Name |-> "", dst |-> <<>>, Labels |-> <<>>],
           Failures |-> 0, Total |-> 0, FailingSince |-> 0]

NoCall == [n |-> 0, command |-> <<>>, fields |-> NilMap, dryRun |-> FALSE,
           ctx |-> "background", ret |-> <<>>, panicked |-> FALSE,
           started |-> FALSE]

\* calls begun so far
RECURSIVE SumCalls(_)
SumCalls(S) ==
    IF S = {} THEN 0
    ELSE LET t == CHOOSE x \in S : TRUE IN count[t].calls + SumCalls(S \ {t})

CallsBegun == SumCalls(Targets) + cmdCall.n

\* an unrecovered panic ends the program: no goroutine runs any more
Crashed == (\E t \in Targets : pc[t] = "panic") \/ cmdCall.panicked

Init ==
    /\ ah \in [name : {<<"disk-full">>}, probeName : {<<"disk">>},
               condition : {[Failures |-> 3, Total |-> 10]},
               notifyCh : ChanKinds, notifyConfig : NotifyConfigs]
    /\ ts = [t \in Targets |->
                [alerted |-> FALSE, failingSince |-> 7, conditionID |-> CondID(t)]]
    /\ pc = [t \in Targets |-> "idle"]
    /\ totalFailures = [t \in Targets |-> 0]
    /\ alertInfo = [t \in Targets |-> NoInfo]
    /\ fields = [t \in Targets |-> NilMap]
    /\ trace = [c \in Callers |-> <<>>]
    /\ count = [t \in Targets |->
                   [calls |-> 0, logs |-> 0, pushes |-> 0, dispatches |-> 0,
                    returns |-> 0]]
    /\ chanQ = <<>>
    /\ rcvReady = FALSE
    /\ received = <<>>
    /\ procs = <<>>
    /\ cancelled = FALSE
    /\ cmdCall = NoCall
    /\ env \in [jsonOk : BOOLEAN, startOk : BOOLEAN]
    /\ fieldsCall = NoFieldsCall

(***************************************************************************)
(* AlertHandler.notify (notify.go 67-93), one action per step between two  *)
(* points where another goroutine can observe the call.                    *)
(***************************************************************************)
\* fault variant: the flag is assigned before the ALERT log is written
NotifyLogFlagFirst(t, n) ==
    /\ ~Crashed
    /\ pc[t] = "idle"
    /\ CallsBegun < MaxCalls
    /\ totalFailures' = [totalFailures EXCEPT ![t] = n]
    /\ ts' = [ts EXCEPT ![t].alerted = TRUE]
    /\ trace' = [trace EXCEPT ![t] = <<>>]
    /\ count' = [count EXCEPT ![t].calls = @ + 1]
    /\ pc' = [pc EXCEPT ![t] = "alerted"]
    /\ UNCHANGED <<ah, alertInfo, fields, chanQ, rcvReady, received, procs,
                   cancelled, cmdCall, env, fieldsCall>>

\* fault variant: a call made while alerted is already true is suppressed
NotifyLogSuppress(t, n) ==
    /\ ~Crashed
    /\ pc[t] = "idle"
    /\ CallsBegun < MaxCalls
    /\ IF ts[t].alerted
       THEN /\ count' = [count EXCEPT ![t].calls = @ + 1, ![t].returns = @ + 1]
            /\ trace' = [trace EXCEPT ![t] = <<>>]
            /\ UNCHANGED <<totalFailures, pc>>
       ELSE /\ totalFailures' = [totalFailures EXCEPT ![t] = n]
            /\ trace' = [trace EXCEPT ![t] = <<LogLine("W", "ALERT", Endpoint(t).Name)>>]
            /\ count' = [count EXCEPT ![t].calls = @ + 1, ![t].logs = @ + 1]
            /\ pc' = [pc EXCEPT ![t] = "alerted"]
    /\ UNCHANGED <<ah, ts, alertInfo, fields, chanQ, rcvReady, received, procs,
                   cancelled, cmdCall, env, fieldsCall>>

\* line 68: the call begins with the warning-level ALERT log
NotifyLog(t, n) ==
    /\ ~Crashed
    /\ pc[t] = "idle"
    /\ CallsBegun < MaxCalls
    /\ totalFailures' = [totalFailures EXCEPT ![t] = n]
    /\ trace' = [trace EXCEPT ![t] = <<LogLine("W", "ALERT", Endpoint(t).Name)>>]
    /\ count' = [count EXCEPT ![t].calls = @ + 1, ![t].logs = @ + 1]
    /\ pc' = [pc EXCEPT ![t] = "alerted"]
    /\ UNCHANGED <<ah, ts, alertInfo, fields, chanQ, rcvReady, received, procs, cancelled, cmdCall, env, fieldsCall>>

\* fault variant: the AlertInfo is built but the flag is not assigned here
NotifySetAlertedLate(t) ==
    /\ ~Crashed
    /\ pc[t] = "alerted"
    /\ alertInfo' = [alertInfo EXCEPT ![t] =
                        [Name         |-> ah.name,
                         ProbeName    |-> ah.probeName,
                         ConditionID  |-> ts[t].conditionID,
                         Target       |-> Endpoint(t),
                         Failures     |-> totalFailures[t],
                         Total        |-> ah.condition.Total,
                         FailingSince |-> ts[t].failingSince]]
    /\ pc' = [pc EXCEPT ![t] = "send"]
    /\ UNCHANGED <<ah, ts, totalFailures, fields, trace, count, chanQ, rcvReady,
                   received, procs, cancelled, cmdCall, env, fieldsCall>>

\* fault variant: Failures is the condition's threshold, not the argument
NotifySetAlertedThreshold(t) ==
    /\ ~Crashed
    /\ pc[t] = "alerted"
    /\ ts' = [ts EXCEPT ![t].alerted = TRUE]
    /\ alertInfo' = [alertInfo EXCEPT ![t] =
                        [Name         |-> ah.name,
                         ProbeName    |-> ah.probeName,
                         ConditionID  |-> ts[t].conditionID,
                         Target       |-> Endpoint(t),
                         Failures     |-> ah.condition.Failures,
                         Total        |-> ah.condition.Total,
                         FailingSince |-> ts[t].failingSince]]
    /\ pc' = [pc EXCEPT ![t] = "send"]
    /\ UNCHANGED <<ah, totalFailures, fields, trace, count, chanQ, rcvReady,
                   received, procs, cancelled, cmdCall, env, fieldsCall>>

\* fault variant: the assignment also restarts the failure streak
NotifySetAlertedResetSince(t) ==
    /\ ~Crashed
    /\ pc[t] = "alerted"
    /\ ts' = [ts EXCEPT ![t].alerted = TRUE, ![t].failingSince = 0]
    /\ alertInfo' = [alertInfo EXCEPT ![t] =
                        [Name         |-> ah.name,
                         ProbeName    |-> ah.probeName,
                         ConditionID  |-> ts[t].conditionID,
                         Target       |-> Endpoint(t),
                         Failures     |-> totalFailures[t],
                         Total        |-> ah.condition.Total,
                         FailingSince |-> ts[t].failingSince]]
    /\ pc' = [pc EXCEPT ![t] = "send"]
    /\ UNCHANGED <<ah, totalFailures, fields, trace, count, chanQ, rcvReady,
                   received, procs, cancelled, cmdCall, env, fieldsCall>>

\* lines 70-79: ts.alerted = true, then the AlertInfo is built
NotifySetAlerted(t) ==
    /\ ~Crashed
    /\ pc[t] = "alerted"
    /\ ts' = [ts EXCEPT ![t].alerted = TRUE]
    /\ alertInfo' = [alertInfo EXCEPT ![t] =
                        [Name         |-> ah.name,
                         ProbeName    |-> ah.probeName,
                         ConditionID  |-> ts[t].conditionID,
                         Target       |-> Endpoint(t),
                         Failures     |-> totalFailures[t],
                         Total        |-> ah.condition.Total,
                         FailingSince |-> ts[t].failingSince]]
    /\ pc' = [pc EXCEPT ![t] = "send"]
    /\ UNCHANGED <<ah, totalFailures, fields, trace, count, chanQ, rcvReady,
                   received, procs, cancelled, cmdCall, env, fieldsCall>>

\* a send on ah.notifyCh can proceed: a receiver waits, or the buffer has room
CanSend ==
    \/ ah.notifyCh = "unbuffered" /\ rcvReady
    \/ ah.notifyCh = "buffered" /\ Len(chanQ) < ChanCap

\* fault variant: a send that cannot proceed is dropped instead of waiting
NotifySendNonBlocking(t) ==
    /\ ~Crashed
    /\ pc[t] = "send"
    /\ IF ah.notifyCh = "nil" \/ ~CanSend
       THEN UNCHANGED <<chanQ, rcvReady, received, count>>
       ELSE /\ count' = [count EXCEPT ![t].pushes = @ + 1]
            /\ IF ah.notifyCh = "unbuffered"
               THEN /\ received' = Append(received, alertInfo[t])
                    /\ rcvReady' = FALSE
                    /\ UNCHANGED chanQ
               ELSE /\ chanQ' = Append(chanQ, alertInfo[t])
                    /\ UNCHANGED <<rcvReady, received>>
    /\ pc' = [pc EXCEPT ![t] = "fields"]
    /\ UNCHANGED <<ah, ts, totalFailures, alertInfo, fields, trace, procs,
                   cancelled, cmdCall, env, fieldsCall>>

\* lines 81-83: the blocking send, skipped when the channel is nil
NotifySend(t) ==
    /\ ~Crashed
    /\ pc[t] = "send"
    /\ IF ah.notifyCh = "nil"
       THEN UNCHANGED <<chanQ, rcvReady, received, count>>
       ELSE /\ CanSend
            /\ count' = [count EXCEPT ![t].pushes = @ + 1]
            /\ IF ah.notifyCh = "unbuffered"
               THEN /\ received' = Append(received, alertInfo[t])
                    /\ rcvReady' = FALSE
                    /\ UNCHANGED chanQ
               ELSE /\ chanQ' = Append(chanQ, alertInfo[t])
                    /\ UNCHANGED <<rcvReady, received>>
    /\ pc' = [pc EXCEPT ![t] = "fields"]
    /\ UNCHANGED <<ah, ts, totalFailures, alertInfo, fields, trace, procs,
                   cancelled, cmdCall, env, fieldsCall>>

\* lines 85-88: the field mapping; an error is logged and the call goes on
NotifyFields(t) ==
    /\ ~Crashed
    /\ pc[t] = "fields"
    /\ LET r == alertFields(alertInfo[t], env.jsonOk)
       IN  /\ fields' = [fields EXCEPT ![t] = r.fields]
           /\ trace' = [trace EXCEPT ![t] =
                           IF r.err
                           THEN Append(@, LogLine("E", "Error getting alert fields", ""))
                           ELSE @]
    /\ pc' = [pc EXCEPT ![t] = "dispatch"]
    /\ UNCHANGED <<ah, ts, totalFailures, alertInfo, count, chanQ, rcvReady,
                   received, procs, cancelled, cmdCall, env, fieldsCall>>

\* line 90: a notify configuration exists and its command is not ""
\* fault variant: an empty command is dispatched like any other
HasCommandAnyConfig == ~ah.notifyConfig.isNil

HasCommand == ~ah.notifyConfig.isNil /\ ah.notifyConfig.Command # <<>>

\* lines 90-93: command dispatch under context.Background(), then return;
\* the locals of the call die with its frame
\* fault variant: the command runs under the caller's cancellable context
NotifyDispatchCallerCtx(t) ==
    /\ ~Crashed
    /\ pc[t] = "dispatch"
    /\ IF HasCommand
       THEN LET r == notifyCommand(ah.notifyConfig.Command, fields[t], FALSE,
                                   cancelled, env.startOk)
            IN  /\ trace' = [trace EXCEPT ![t] = @ \o r.trace]
                /\ procs' = IF r.started
                            THEN Append(procs, [ctx |-> "shutdown", argv |-> r.argv,
                                                st |-> "running"])
                            ELSE procs
                /\ count' = [count EXCEPT ![t].dispatches = @ + 1,
                                          ![t].returns = IF r.panicked THEN @ ELSE @ + 1]
                /\ pc' = [pc EXCEPT ![t] = IF r.panicked THEN "panic" ELSE "idle"]
       ELSE /\ count' = [count EXCEPT ![t].returns = @ + 1]
            /\ pc' = [pc EXCEPT ![t] = "idle"]
            /\ UNCHANGED <<trace, procs>>
    /\ totalFailures' = [totalFailures EXCEPT ![t] = 0]
    /\ alertInfo' = [alertInfo EXCEPT ![t] = NoInfo]
    /\ fields' = [fields EXCEPT ![t] = NilMap]
    /\ UNCHANGED <<ah, ts, chanQ, rcvReady, received, cancelled, cmdCall, env, fieldsCall>>

NotifyDispatch(t) ==
    /\ ~Crashed
    /\ pc[t] = "dispatch"
    /\ IF HasCommand
       THEN LET r == notifyCommand(ah.notifyConfig.Command, fields[t], FALSE,
                                   FALSE, env.startOk)
            IN  /\ trace' = [trace EXCEPT ![t] = @ \o r.trace]
                /\ procs' = IF r.started
                            THEN Append(procs, [ctx |-> "background", argv |-> r.argv,
                                                st |-> "running"])
                            ELSE procs
                /\ count' = [count EXCEPT ![t].dispatches = @ + 1,
                                          ![t].returns = IF r.panicked THEN @ ELSE @ + 1]
                /\ pc' = [pc EXCEPT ![t] = IF r.panicked THEN "panic" ELSE "idle"]
       ELSE /\ count' = [count EXCEPT ![t].returns = @ + 1]
            /\ pc' = [pc EXCEPT ![t] = "idle"]
            /\ UNCHANGED <<trace, procs>>
    /\ totalFailures' = [totalFailures EXCEPT ![t] = 0]
    /\ alertInfo' = [alertInfo EXCEPT ![t] = NoInfo]
    /\ fields' = [fields EXCEPT ![t] = NilMap]
    /\ UNCHANGED <<ah, ts, chanQ, rcvReady, received, cancelled, cmdCall, env, fieldsCall>>

(***************************************************************************)
(* The environment of notify: the consumer of ah.notifyCh, the failure     *)
(* tracking logic that owns the per-target state, a direct caller of       *)
(* notifyCommand, and the operating system's processes.                    *)
(***************************************************************************)
\* the consumer blocks in a receive on the channel
ConsumerReady ==
    /\ ~Crashed
    /\ ah.notifyCh # "nil"
    /\ ~rcvReady
    /\ rcvReady' = TRUE
    /\ UNCHANGED <<ah, ts, pc, totalFailures, alertInfo, fields, trace, count,
                   chanQ, received, procs, cancelled, cmdCall, env, fieldsCall>>

\* the waiting consumer takes the head of the buffer
ConsumerRecv ==
    /\ ~Crashed
    /\ rcvReady
    /\ chanQ # <<>>
    /\ received' = Append(received, Head(chanQ))
    /\ chanQ' = Tail(chanQ)
    /\ rcvReady' = FALSE
    /\ UNCHANGED <<ah, ts, pc, totalFailures, alertInfo, fields, trace, count,
                   procs, cancelled, cmdCall, env, fieldsCall>>

\* the target recovers: the failure tracking logic resets the state and a
\* later failure streak begins at another instant
Recover(t, since) ==
    /\ ~Crashed
    /\ pc[t] = "idle"
    /\ ts[t].alerted
    /\ CallsBegun < MaxCalls
    /\ since # ts[t].failingSince
    /\ ts' = [ts EXCEPT ![t].alerted = FALSE, ![t].failingSince = since]
    /\ UNCHANGED <<ah, pc, totalFailures, alertInfo, fields, trace, count, chanQ,
                   rcvReady, received, procs, cancelled, cmdCall, env, fieldsCall>>

\* the field mappings a direct caller of notifyCommand passes
CmdFields ==
    {NilMap} \cup
    {alertFields([Name |-> <<"disk-full">>, ProbeName |-> <<"disk">>,
                  ConditionID |-> CondID(t), Target |-> Endpoint(t),
                  Failures |-> 5, Total |-> 5, FailingSince |-> 7], TRUE).fields :
        t \in Targets}

\* a direct call notifyCommand(ctx, command, fields, dryRun)
CmdCall(command, flds, dryRun, ctx) ==
    /\ ~Crashed
    /\ CallsBegun < MaxCalls
    /\ LET r == notifyCommand(command, flds, dryRun,
                              ctx = "shutdown" /\ cancelled, env.startOk)
       IN  /\ trace' = [trace EXCEPT !["cmd"] = r.trace]
           /\ procs' = IF r.started
                       THEN Append(procs, [ctx |-> ctx, argv |-> r.argv,
                                           st |-> "running"])
                       ELSE procs
           /\ cmdCall' = [n |-> cmdCall.n + 1, command |-> command, fields |-> flds,
                          dryRun |-> dryRun, ctx |-> ctx, ret |-> r.ret,
                          panicked |-> r.panicked, started |-> r.started]
    /\ UNCHANGED <<ah, ts, pc, totalFailures, alertInfo, fields, count, chanQ,
                   rcvReady, received, cancelled, env, fieldsCall>>

\* a started process exits on its own
ProcExit(i) ==
    /\ procs[i].st = "running"
    /\ procs' = [procs EXCEPT ![i].st = "exited"]
    /\ UNCHANGED <<ah, ts, pc, totalFailures, alertInfo, fields, trace, count,
                   chanQ, rcvReady, received, cancelled, cmdCall, env, fieldsCall>>

\* the caller cancels its context
CancelCtx ==
    /\ ~Crashed
    /\ ~cancelled
    /\ cancelled' = TRUE
    /\ UNCHANGED <<ah, ts, pc, totalFailures, alertInfo, fields, trace, count,
                   chanQ, rcvReady, received, procs, cmdCall, env, fieldsCall>>

\* exec.CommandContext: a process whose context is done is killed
CtxKill(i) ==
    /\ ~Crashed
    /\ procs[i].st = "running"
    /\ procs[i].ctx = "shutdown"
    /\ cancelled
    /\ procs' = [procs EXCEPT ![i].st = "killed"]
    /\ UNCHANGED <<ah, ts, pc, totalFailures, alertInfo, fields, trace, count,
                   chanQ, rcvReady, received, cancelled, cmdCall, env, fieldsCall>>

\* notify calls of every target, the channel's consumer, the failure tracking
\* logic and the started processes
NextNotify ==
    \/ \E t \in Targets, n \in FailureVals : NotifyLog(t, n)
    \/ \E t \in Targets : NotifySetAlerted(t)
    \/ \E t \in Targets : NotifySend(t)
    \/ \E t \in Targets : NotifyFields(t)
    \/ \E t \in Targets : NotifyDispatch(t)
    \/ ConsumerReady
    \/ ConsumerRecv
    \/ \E t \in Targets, since \in SinceVals : Recover(t, since)
    \/ \E i \in DOMAIN procs : ProcExit(i)

\* the same, and a dry run of the configured command
Next ==
    \/ \E t \in Targets, n \in FailureVals : NotifyLog(t, n)
    \/ \E t \in Targets : NotifySetAlerted(t)
    \/ \E t \in Targets : NotifySend(t)
    \/ \E t \in Targets : NotifyFields(t)
    \/ \E t \in Targets : NotifyDispatch(t)
    \/ ConsumerReady
    \/ ConsumerRecv
    \/ \E t \in Targets, since \in SinceVals : Recover(t, since)
    \/ \E flds \in CmdFields :
          HasCommand /\ CmdCall(ah.notifyConfig.Command, flds, TRUE, "background")
    \/ \E i \in DOMAIN procs : ProcExit(i)

Spec == Init /\ [][Next]_vars

\* direct calls of notifyCommand with any template, mapping, mode and context
NextCmd ==
    \/ \E command \in Templates, flds \in CmdFields, dryRun \in BOOLEAN,
          ctx \in Ctxs :
            CmdCall(command, flds, dryRun, ctx)
    \/ \E i \in DOMAIN procs : ProcExit(i)
    \/ CancelCtx
    \/ \E i \in DOMAIN procs : CtxKill(i)

\* a handler without channel and without command, whose notify is not called
InitCmd ==
    /\ Init
    /\ ah.notifyCh = "nil"
    /\ ah.notifyConfig.isNil
    /\ env.jsonOk

SpecCmd == InitCmd /\ [][NextCmd]_vars

\* notify calls next to a caller that runs the configured command itself
\* under its own context, and cancels that context
NextShutdown ==
    \/ \E t \in Targets, n \in FailureVals : NotifyLog(t, n)
    \/ \E t \in Targets : NotifySetAlerted(t)
    \/ \E t \in Targets : NotifySend(t)
    \/ \E t \in Targets : NotifyFields(t)
    \/ \E t \in Targets : NotifyDispatch(t)
    \/ \E flds \in CmdFields :
          CmdCall(ah.notifyConfig.Command, flds, FALSE, "shutdown")
    \/ \E i \in DOMAIN procs : ProcExit(i)
    \/ CancelCtx
    \/ \E i \in DOMAIN procs : CtxKill(i)

\* a handler without channel, with a command
InitShutdown ==
    /\ Init
    /\ ah.notifyCh = "nil"
    /\ HasCommand
    /\ env.jsonOk

SpecShutdown == InitShutdown /\ [][NextShutdown]_vars

(***************************************************************************)
(* Direct calls of alertFields on a range of AlertInfo values: labels with *)
(* no, one or two entries whose values hold quotes, backslashes, bytes     *)
(* that are not valid UTF-8, or nothing.                                   *)
(***************************************************************************)
LabelNames == {"env", "zone"}

LabelValues ==
    {<<>>, <<"prod">>, <<"say ", "\"", "hi", "\"">>, <<"c:", "\\", "tmp">>,
     <<"caf", "<0xE9>">>}

LabelMaps == UNION {[names -> LabelValues] : names \in SUBSET LabelNames}

AlertInfos ==
    [Name         : {<<"disk-full">>},
     ProbeName    : {<<"disk">>},
     ConditionID  : {<<"cond-1">>},
     Target       : {[Name |-> "host1", dst |-> <<"host1">>, Labels |-> l] :
                        l \in LabelMaps},
     Failures     : {4, 12},
     Total        : {10},
     FailingSince : SinceVals]

\* the orders in which a range over the map can visit its keys
RangeOrders(m) ==
    {o \in UNION {[1..n -> DOMAIN m] : n \in {Cardinality(DOMAIN m)}} :
        \A i, j \in DOMAIN o : i # j => o[i] # o[j]}

\* fields, err := alertFields(alertInfo)
FieldsCall(info, order) ==
    /\ LET r == alertFieldsRange(info, order, env.jsonOk)
       IN  fieldsCall' = [called |-> TRUE, alertInfo |-> info, order |-> order,
                          fields |-> r.fields, err |-> r.err]
    /\ UNCHANGED <<ah, ts, pc, totalFailures, alertInfo, fields, trace, count,
                   chanQ, rcvReady, received, procs, cancelled, cmdCall, env>>

NextFields ==
    \E info \in AlertInfos : \E order \in RangeOrders(info.Target.Labels) :
        FieldsCall(info, order)

InitFields ==
    /\ Init
    /\ ah.notifyCh = "nil"
    /\ ah.notifyConfig.isNil
    /\ env.startOk

SpecFields == InitFields /\ [][NextFields]_vars

(***************************************************************************)
(* Observations on a trace.                                                *)
(***************************************************************************)
HasLog(tr, msg) == \E i \in DOMAIN tr : tr[i].kind = "log" /\ tr[i].msg = msg
HasExec(tr) == \E i \in DOMAIN tr : tr[i].kind = "exec"
FirstIsAlertLog(tr) == tr # <<>> /\ tr[1].kind = "log" /\ tr[1].msg = "ALERT"

\* the send of t's call is blocked: a channel exists and cannot take the value
Blocked(t) == pc[t] = "send" /\ ah.notifyCh # "nil" /\ ~CanSend

\* shlex.Split reports an error on the substituted command
TokenizationFails(command, flds) == Split(SubstituteLabels(command, flds).res).err

\* the keys alertFields sets before the JSON encoding
ReservedKeys == {"alert", "probe", "target", "condition_id", "failures", "total", "since"}

\* the positions of a notify call after the assignment of line 70
AfterAssignment == {"send", "fields", "dispatch", "panic"}

(***************************************************************************)
(* C1.  Every notify call sets alerted: in every state after the flag      *)
(* assignment of a call (blocked on the channel send, after a failed field *)
(* mapping, after a panic or failure of command dispatch) the target's     *)
(* alerted flag is true, and no target is left in a call with the flag     *)
(* unset once the call has passed line 70.                                 *)
(***************************************************************************)
C1_AlertedAfterAssignment ==
    \A t \in Targets : pc[t] \in AfterAssignment => ts[t].alerted

\* a call blocked on the channel send, and another whose field mapping failed
C1_Witness ==
    \E t, u \in Targets :
        /\ Blocked(t) /\ ts[t].alerted
        /\ pc[u] = "dispatch" /\ ~env.jsonOk /\ ts[u].alerted

(***************************************************************************)
(* C2.  The steps of a notify call occur in the order ALERT log, flag      *)
(* assignment, channel push, command dispatch.  Every call in progress has *)
(* written its ALERT log first; a target whose flag is true has had an     *)
(* ALERT log written for it; the push of a call has not happened before    *)
(* its flag assignment and its dispatch has not happened before its push.  *)
(***************************************************************************)
C2_StepOrder ==
    \A t \in Targets :
        /\ count[t].logs = count[t].calls
        /\ ts[t].alerted => count[t].logs >= 1
        /\ pc[t] # "idle" => FirstIsAlertLog(trace[t])
        /\ pc[t] \in {"alerted", "send"} =>
               /\ count[t].pushes = IF ah.notifyCh = "nil" THEN 0 ELSE count[t].calls - 1
               /\ ~HasExec(trace[t])
        /\ pc[t] \in {"fields", "dispatch"} =>
               /\ ts[t].alerted
               /\ count[t].pushes = IF ah.notifyCh = "nil" THEN 0 ELSE count[t].calls
               /\ count[t].dispatches = IF HasCommand THEN count[t].calls - 1 ELSE 0
               /\ ~HasExec(trace[t])
        /\ HasExec(trace[t]) =>
               /\ FirstIsAlertLog(trace[t])
               /\ count[t].dispatches = count[t].calls
               /\ count[t].pushes = IF ah.notifyCh = "nil" THEN 0 ELSE count[t].calls

\* a call that has pushed onto the channel and started a process
C2_Witness ==
    \E t \in Targets :
        /\ pc[t] = "idle" /\ count[t].returns = 1 /\ count[t].pushes = 1
        /\ HasExec(trace[t]) /\ procs # <<>> /\ ts[t].alerted

(***************************************************************************)
(* C3.  No failure of command dispatch escapes to the caller of notify:    *)
(* notifyCommand and notify return normally for every non-empty template   *)
(* and every mapping, whether called from notify or directly.              *)
(***************************************************************************)
C3_NoFailureEscapes ==
    /\ \A t \in Targets : pc[t] # "panic"
    /\ ~cmdCall.panicked

(***************************************************************************)
(* C4.  When tokenization of the substituted command fails, notifyCommand  *)
(* logs the error, starts no process and returns nil, in live mode (from   *)
(* notify) and in dry-run mode; the enclosing notify call returns with the *)
(* ALERT log written and alerted true.                                     *)
(***************************************************************************)
C4_TokenizationFailure ==
    [][ /\ \A t \in Targets :
              ( /\ pc[t] = "dispatch" /\ pc'[t] # "dispatch"
                /\ HasCommand
                /\ TokenizationFails(ah.notifyConfig.Command, fields[t]) )
              => /\ pc'[t] = "idle"
                 /\ count'[t].returns = count[t].returns + 1
                 /\ procs' = procs
                 /\ ~HasExec(trace'[t])
                 /\ HasLog(trace'[t], "Error parsing command line")
                 /\ ~HasLog(trace'[t], "Starting external command")
                 /\ FirstIsAlertLog(trace'[t])
                 /\ ts'[t].alerted
        /\ ( /\ cmdCall'.n = cmdCall.n + 1
             /\ TokenizationFails(cmdCall'.command, cmdCall'.fields) )
           => /\ cmdCall'.ret = <<>>
              /\ ~cmdCall'.panicked
              /\ procs' = procs
              /\ ~HasExec(trace'["cmd"])
              /\ HasLog(trace'["cmd"], "Error parsing command line")
              /\ ~HasLog(trace'["cmd"], "Starting external command")
      ]_vars

\* a notify call and a dry run whose tokenization failed
C4_Witness ==
    /\ \E t \in Targets :
          /\ pc[t] = "idle" /\ count[t].returns = 1
          /\ HasLog(trace[t], "Error parsing command line")
          /\ ts[t].alerted
    /\ cmdCall.n = 1 /\ cmdCall.dryRun
    /\ HasLog(trace["cmd"], "Error parsing command line")

(***************************************************************************)
(* C5.  When field-mapping construction fails inside notify, command       *)
(* dispatch takes place with the fields computed before the failure: the   *)
(* reserved fields and the target.label.* fields are in the mapping and    *)
(* only json is missing.                                                   *)
(***************************************************************************)
C5_FieldsSurviveEncodingFailure ==
    \A t \in Targets :
        (pc[t] = "dispatch" /\ ~env.jsonOk) =>
            DOMAIN fields[t] =
                ReservedKeys \cup {LabelKey(k) : k \in DOMAIN Endpoint(t).Labels}

(***************************************************************************)
(* C6.  With a notification channel the send of notify is blocking: while  *)
(* no receiver waits and no buffer slot is free the call stays at the send *)
(* (it neither reaches command dispatch nor returns), in that state the    *)
(* ALERT log is written and alerted is true, and the call leaves the send  *)
(* only by a send that is accepted and delivers its AlertInfo.  With a nil *)
(* channel the call sends nothing and is never held at the send.           *)
(***************************************************************************)
C6_BlockingSend ==
    /\ [](\A t \in Targets :
            /\ Blocked(t) =>
                  /\ FirstIsAlertLog(trace[t])
                  /\ ts[t].alerted
                  /\ ~ENABLED NotifySend(t)
            /\ (pc[t] = "send" /\ ah.notifyCh = "nil" /\ ~Crashed) =>
                  ENABLED NotifySend(t))
    /\ [][\A t \in Targets :
            (pc[t] = "send" /\ pc'[t] # "send") =>
               /\ pc'[t] = "fields"
               /\ IF ah.notifyCh = "nil"
                  THEN /\ chanQ' = chanQ /\ received' = received
                       /\ count'[t].pushes = count[t].pushes
                  ELSE /\ CanSend
                       /\ count'[t].pushes = count[t].pushes + 1
                       /\ \/ chanQ' = Append(chanQ, alertInfo[t])
                          \/ received' = Append(received, alertInfo[t])
      ]_vars

\* a call held at the send by a full buffer
C6_Witness ==
    \E t \in Targets :
        /\ Blocked(t)
        /\ ah.notifyCh = "buffered" /\ Len(chanQ) = ChanCap
        /\ count[t].pushes < count[t].calls

(***************************************************************************)
(* Scheduling: a goroutine that can take its next step takes it; the       *)
(* consumer keeps receiving, so a sender that waits is eventually served.  *)
(***************************************************************************)
Fairness ==
    /\ \A t \in Targets :
          /\ WF_vars(NotifySetAlerted(t) \/ NotifyFields(t) \/ NotifyDispatch(t))
          /\ SF_vars(NotifySend(t))
    /\ WF_vars(ConsumerReady \/ ConsumerRecv)

FairSpec == Init /\ [][NextNotify]_vars /\ Fairness

\* exec.CommandContext: once the context of a started command is done, the
\* goroutine watching it runs and kills the process, while the program lives
FairnessCmd ==
    \A i \in 1..MaxCalls : WF_vars(i \in DOMAIN procs /\ CtxKill(i))

FairSpecCmd == InitCmd /\ [][NextCmd]_vars /\ FairnessCmd

(***************************************************************************)
(* C7.  Command execution is fire-and-forget: provided the channel send is *)
(* eventually accepted, every notify call that has begun eventually        *)
(* returns, whatever the started process does.                             *)
(***************************************************************************)
C7_NotifyReturns ==
    \A t \in Targets : (pc[t] = "alerted") ~> (pc[t] = "idle")

(***************************************************************************)
(* C8.  In dry-run mode notifyCommand starts no process and leaves the     *)
(* processes as they were, and when tokenization succeeds it returns the   *)
(* argument vector obtained by tokenizing the substituted template.        *)
(***************************************************************************)
C8_DryRunReturnsArgv ==
    [][ (cmdCall'.n = cmdCall.n + 1 /\ cmdCall'.dryRun) =>
           /\ procs' = procs
           /\ ~HasExec(trace'["cmd"])
           /\ ~TokenizationFails(cmdCall'.command, cmdCall'.fields) =>
                 /\ ~cmdCall'.panicked
                 /\ cmdCall'.ret =
                       Split(SubstituteLabels(cmdCall'.command, cmdCall'.fields).res).words
      ]_vars

\* part: the lines and effects notifyCommand produced in one call
UnresolvedOutcome(part, command, flds, live) ==
    LET partial == SubstituteLabels(command, flds).res
        sp == Split(partial)
    IN  /\ Len(part) >= 2
        /\ part[1] = LogLine("W", "couldn't substitute all labels in command",
                             TemplateText(command))
        /\ IF sp.err
           THEN /\ Len(part) = 2
                /\ part[2] = LogLine("E", "Error parsing command line", Flatten(partial))
           ELSE /\ part[2] = LogLine("I", "Starting external command", Join(sp.words, " "))
                /\ (live /\ sp.words # <<>>) =>
                      /\ Len(part) >= 3
                      /\ part[3] = ExecStart(Join(sp.words, " "))

(***************************************************************************)
(* C9.  An unresolved placeholder never blocks dispatch: notifyCommand     *)
(* logs a warning and goes on to tokenize the partially substituted        *)
(* string; when that string tokenizes, the 'Starting' log names its words  *)
(* and in live mode cmd.Start is attempted with them, and when it does not *)
(* tokenize the parse error names it.                                      *)
(***************************************************************************)
C9_UnresolvedPlaceholder ==
    [][ /\ \A t \in Targets :
              ( /\ pc[t] = "dispatch" /\ pc'[t] # "dispatch"
                /\ HasCommand
                /\ ~SubstituteLabels(ah.notifyConfig.Command, fields[t]).foundAll )
              => /\ UnresolvedOutcome(
                        SubSeq(trace'[t], Len(trace[t]) + 1, Len(trace'[t])),
                        ah.notifyConfig.Command, fields[t], TRUE)
                 /\ (HasExec(trace'[t]) /\ env.startOk) => Len(procs') = Len(procs) + 1
        /\ ( /\ cmdCall'.n = cmdCall.n + 1
             /\ ~SubstituteLabels(cmdCall'.command, cmdCall'.fields).foundAll )
           => UnresolvedOutcome(trace'["cmd"], cmdCall'.command, cmdCall'.fields,
                                ~cmdCall'.dryRun)
      ]_vars

\* notify.sh {{owner}}: the process is started with the placeholder as a word
C9_Witness ==
    \E t \in Targets :
        /\ pc[t] = "idle" /\ count[t].returns = 1
        /\ ah.notifyConfig.Command = TplMissing
        /\ HasLog(trace[t], "couldn't substitute all labels in command")
        /\ \E i \in DOMAIN trace[t] : trace[t][i] = ExecStart("notify.sh {{owner}}")
        /\ \E i \in DOMAIN procs : procs[i].argv = <<"notify.sh", "{{owner}}">>

(***************************************************************************)
(* C10.  notify is idempotent on alerted and does not de-duplicate: after  *)
(* n calls on a target there are n ALERT log lines, n channel pushes (with *)
(* a channel) and n notifyCommand calls (with a command), alerted is true  *)
(* at each return, and a call made while alerted is true is carried out    *)
(* like any other.                                                         *)
(***************************************************************************)
C10_NotDeduplicating ==
    /\ [](\A t \in Targets :
            /\ count[t].logs = count[t].calls
            /\ pc[t] \in {"idle", "panic"} =>
                  /\ count[t].pushes = IF ah.notifyCh = "nil" THEN 0 ELSE count[t].calls
                  /\ count[t].dispatches = IF HasCommand THEN count[t].calls ELSE 0
            /\ pc[t] = "idle" => count[t].returns = count[t].calls)
    /\ [][\A t \in Targets :
            count'[t].returns = count[t].returns + 1 =>
               /\ ts'[t].alerted
               /\ pc[t] = "dispatch"
               /\ FirstIsAlertLog(trace'[t])
      ]_vars

\* two calls on one target that never recovered in between
C10_Witness ==
    \E t \in Targets :
        /\ pc[t] = "idle" /\ ts[t].alerted /\ ts[t].failingSince = 7
        /\ count[t].calls = 2 /\ count[t].returns = 2 /\ count[t].logs = 2
        /\ count[t].pushes = 2 /\ count[t].dispatches = 2

\* a step of notify or of notifyCommand (not of their environment)
CoreStep == (\E t \in Targets : pc'[t] # pc[t]) \/ cmdCall'.n # cmdCall.n

(***************************************************************************)
(* C11.  The only change notify and notifyCommand make to the per-target   *)
(* state is alerted becoming true: no step of theirs sets alerted from     *)
(* true to false, changes failingSince or conditionID, or touches the      *)
(* state of a target other than the one of the call at line 70.            *)
(***************************************************************************)
C11_OnlyAlertedChanges ==
    [][ CoreStep =>
          \A t \in Targets :
             /\ ts'[t].failingSince = ts[t].failingSince
             /\ ts'[t].conditionID = ts[t].conditionID
             /\ ts[t].alerted => ts'[t].alerted
             /\ ts'[t] # ts[t] =>
                   /\ pc[t] = "alerted" /\ pc'[t] = "send"
                   /\ ~ts[t].alerted /\ ts'[t].alerted
      ]_vars

\* a second call on a target that recovered and whose streak began anew
C11_Witness ==
    \E t \in Targets :
        /\ count[t].calls = 2 /\ pc[t] = "send"
        /\ ts[t].alerted /\ ts[t].failingSince = 42
        /\ ts[t].conditionID = CondID(t)

\* the keys alertFields sets from the AlertInfo itself
ReservedFieldNames ==
    {"alert", "probe", "target", "condition_id", "failures", "total", "since"}

(***************************************************************************)
(* C12.  When alertFields succeeds, the keys of the returned mapping are   *)
(* exactly alert, probe, target, condition_id, failures, total, since and  *)
(* json, and one key target.label.<name> per label of the target: 8 keys   *)
(* plus the number of labels.  The result does not depend on the order in  *)
(* which the labels are visited: a call on the same AlertInfo as the call  *)
(* before it returns the same mapping, and the mapping is the one notify   *)
(* gets for that AlertInfo.                                                *)
(***************************************************************************)
C12_ExactKeySet ==
    /\ [](fieldsCall.called /\ ~fieldsCall.err =>
            LET labels == fieldsCall.alertInfo.Target.Labels
            IN  /\ DOMAIN fieldsCall.fields =
                      ReservedFieldNames \cup {"json"}
                          \cup {"target.label." \o name : name \in DOMAIN labels}
                /\ Cardinality(DOMAIN fieldsCall.fields) =
                      8 + Cardinality(DOMAIN labels)
                /\ fieldsCall.fields = alertFields(fieldsCall.alertInfo, TRUE).fields)
    /\ [][ /\ fieldsCall.called /\ fieldsCall'.called
           /\ ~fieldsCall.err /\ ~fieldsCall'.err
           /\ fieldsCall'.alertInfo = fieldsCall.alertInfo
           => fieldsCall'.fields = fieldsCall.fields ]_vars

\* a successful call on a target with two labels, visited zone first
C12_Witness ==
    /\ fieldsCall.called /\ ~fieldsCall.err
    /\ fieldsCall.order = <<"zone", "env">>
    /\ Cardinality(DOMAIN fieldsCall.fields) = 10

\* the mapping without its json key
WithoutJSON(m) == [k \in DOMAIN m \ {"json"} |-> m[k]]

\* every value of the mapping is valid UTF-8
ValidUTF8(m) == \A k \in DOMAIN m : \A i \in DOMAIN m[k] : m[k][i] # "<0xE9>"

CancelledWhileRunning(i) ==
    /\ i \in DOMAIN procs
    /\ procs[i].ctx = "shutdown"
    /\ procs[i].st = "running"
    /\ cancelled

(***************************************************************************)
(* C14.  A process started by a live notifyCommand call under a context    *)
(* that is cancelled before the process exits is eventually terminated:    *)
(* it does not stay running.                                               *)
(***************************************************************************)
C14_CancelTerminates ==
    \A i \in 1..MaxCalls :
        CancelledWhileRunning(i) ~> (i \in DOMAIN procs /\ procs[i].st # "running")

(***************************************************************************)
(* C15.  A live notifyCommand call that fails to tokenize, fails to start  *)
(* the process or starts it returns nil in all three cases; a start that   *)
(* fails is logged and adds no process, a start that succeeds adds one.    *)
(***************************************************************************)
C15_LiveReturnsNil ==
    [][ cmdCall'.n # cmdCall.n /\ ~cmdCall'.dryRun /\ ~cmdCall'.panicked =>
          LET tr == trace'["cmd"]
          IN  /\ cmdCall'.ret = <<>>
              /\ TokenizationFails(cmdCall'.command, cmdCall'.fields) =>
                    ~HasExec(tr) /\ ~cmdCall'.started /\ procs' = procs
              /\ HasExec(tr) /\ ~cmdCall'.started =>
                    /\ HasLog(tr, "error while starting the cmd")
                    /\ procs' = procs
              /\ cmdCall'.started =>
                    /\ HasExec(tr)
                    /\ ~HasLog(tr, "error while starting the cmd")
                    /\ Len(procs') = Len(procs) + 1
      ]_vars

\* a live call whose process could not be started
C15_Witness ==
    /\ cmdCall.n > 0 /\ ~cmdCall.dryRun /\ ~cmdCall.panicked
    /\ HasExec(trace["cmd"]) /\ ~cmdCall.started
    /\ HasLog(trace["cmd"], "error while starting the cmd")
    /\ cmdCall.ret = <<>>
    /\ procs = <<>>

\* process starts attempted in a trace
ExecCount(tr) == Cardinality({i \in DOMAIN tr : tr[i].kind = "exec"})

(***************************************************************************)
(* C16.  A notify call attempts at most one process start, and only when   *)
(* the handler has a notify configuration whose command is not empty.      *)
(* With no configuration or an empty command the call starts no process    *)
(* and does not call notifyCommand, and still logs ALERT, sets alerted,    *)
(* has pushed onto the channel when there is one, and returns.             *)
(***************************************************************************)
C16_AtMostOneStart ==
    /\ [](\A t \in Targets :
            /\ ExecCount(trace[t]) <= 1
            /\ ExecCount(trace[t]) = 1 =>
                  ~ah.notifyConfig.isNil /\ ah.notifyConfig.Command # <<>>)
    /\ [][ \A t \in Targets :
             pc[t] = "dispatch" /\ pc'[t] # "dispatch" =>
                /\ Len(procs') <= Len(procs) + 1
                /\ Len(procs') = Len(procs) + ExecCount(trace'[t])
                      \/ (ExecCount(trace'[t]) = 1 /\ procs' = procs
                            /\ HasLog(trace'[t], "error while starting the cmd"))
                /\ ah.notifyConfig.isNil \/ ah.notifyConfig.Command = <<>> =>
                      /\ procs' = procs
                      /\ trace'[t] = trace[t]
                      /\ count'[t].dispatches = count[t].dispatches
                      /\ FirstIsAlertLog(trace'[t])
                      /\ ts'[t].alerted
                      /\ ah.notifyCh # "nil" => count'[t].pushes = count'[t].calls
                      /\ pc'[t] = "idle"
      ]_vars

\* a call on a handler with a channel and an empty command has returned
C16_Witness ==
    \E t \in Targets :
        /\ ~ah.notifyConfig.isNil /\ ah.notifyConfig.Command = <<>>
        /\ ah.notifyCh # "nil"
        /\ count[t].returns = 1 /\ count[t].pushes = 1 /\ pc[t] = "idle"
        /\ ts[t].alerted
        /\ procs = <<>>

\* the argument vector of a call: the words of the rendered command
ArgvOf(command, flds) == Split(SubstituteLabels(command, flds).res).words

\* the 'Starting external command' log of an argument vector
StartingLog(argv) == LogLine("I", "Starting external command", Join(argv, " "))

(***************************************************************************)
(* C17.  In every call, each process start attempt comes directly after    *)
(* the 'Starting external command' log of the same space-joined argument   *)
(* vector; a direct call (dry run or live) whose command tokenizes emits   *)
(* that log for its argument vector, and a call whose tokenization fails   *)
(* emits no such log and attempts no start.                                *)
(***************************************************************************)
C17_StartingLogBeforeStart ==
    /\ \A c \in Callers : \A i \in DOMAIN trace[c] :
          trace[c][i].kind = "exec" =>
             /\ i > 1
             /\ trace[c][i - 1] =
                   LogLine("I", "Starting external command", trace[c][i].arg)
    /\ cmdCall.n > 0 =>
          IF TokenizationFails(cmdCall.command, cmdCall.fields)
          THEN /\ ~HasLog(trace["cmd"], "Starting external command")
               /\ ~HasExec(trace["cmd"])
          ELSE \E i \in DOMAIN trace["cmd"] :
                  trace["cmd"][i] = StartingLog(ArgvOf(cmdCall.command, cmdCall.fields))

\* a dry run that logged its argument vector and attempted no start
C17_Witness ==
    /\ cmdCall.n > 0 /\ cmdCall.dryRun /\ ~cmdCall.panicked
    /\ Len(cmdCall.ret) > 1
    /\ trace["cmd"] = <<StartingLog(cmdCall.ret)>>

\* the records the channel holds or has delivered
Pushed == received \o chanQ

(***************************************************************************)
(* C18.  The AlertInfo of a call has the handler's name and probe name,    *)
(* the total of the handler's condition, the call's totalFailures          *)
(* argument as Failures, and the target state's conditionID and            *)
(* failingSince.  Once the push is done that very record is in the         *)
(* channel or with the consumer, and the field mapping computed after it   *)
(* renders the same values.                                                *)
(***************************************************************************)
C18_AlertInfoContents ==
    \A t \in Targets :
        /\ pc[t] \in {"send", "fields", "dispatch"} =>
              /\ alertInfo[t].Name = ah.name
              /\ alertInfo[t].ProbeName = ah.probeName
              /\ alertInfo[t].Total = ah.condition.Total
              /\ alertInfo[t].Failures = totalFailures[t]
              /\ alertInfo[t].ConditionID = ts[t].conditionID
              /\ alertInfo[t].FailingSince = ts[t].failingSince
              /\ alertInfo[t].Target = Endpoint(t)
        /\ pc[t] \in {"fields", "dispatch"} /\ ah.notifyCh # "nil" =>
              \E i \in DOMAIN Pushed : Pushed[i] = alertInfo[t]
        /\ pc[t] = "dispatch" /\ env.jsonOk =>
              /\ fields[t]["alert"] = ah.name
              /\ fields[t]["probe"] = ah.probeName
              /\ fields[t]["total"] = Itoa(ah.condition.Total)
              /\ fields[t]["failures"] = Itoa(totalFailures[t])
              /\ fields[t]["condition_id"] = ts[t].conditionID
              /\ fields[t]["since"] = FormatRFC3339(ts[t].failingSince)
              /\ fields[t]["target"] = Dst(Endpoint(t))

\* a second call on a recovered target: its record, with the new start of
\* the streak, was pushed and its fields are computed
C18_Witness ==
    \E t \in Targets :
        /\ pc[t] = "dispatch" /\ env.jsonOk /\ ah.notifyCh # "nil"
        /\ count[t].calls = 2
        /\ alertInfo[t].FailingSince = 42
        /\ alertInfo[t].Failures = 4
        /\ \E i \in DOMAIN Pushed : Pushed[i] = alertInfo[t]
        /\ fields[t]["failures"] = <<"4">>

\* the records in the channel or delivered that name target t
PushedFor(t) == {i \in DOMAIN Pushed : Pushed[i].Target = Endpoint(t)}

(***************************************************************************)
(* C19.  Notify calls on distinct targets that share the handler and its   *)
(* channel, with a consumer that keeps receiving, in any interleaving:     *)
(* every call that has begun returns, and when it returns its target's     *)
(* state is alerted and its record has been pushed; a step of a call       *)
(* changes no state but that of its own target; the channel and the        *)
(* consumer hold exactly one record per push, naming the pushing call's    *)
(* target, and no call gets past its send without its push.                *)
(***************************************************************************)
C19_ConcurrentCalls ==
    /\ \A t \in Targets :
          (pc[t] = "alerted") ~>
              (/\ pc[t] = "idle"
               /\ ts[t].alerted
               /\ count[t].returns = count[t].calls
               /\ ah.notifyCh # "nil" => count[t].pushes = count[t].calls)
    /\ [](\A t \in Targets :
            /\ Cardinality(PushedFor(t)) = count[t].pushes
            /\ count[t].pushes <= count[t].calls
            /\ ah.notifyCh # "nil" /\ pc[t] \in {"fields", "dispatch"} =>
                  count[t].pushes = count[t].calls)
    /\ [][\A t \in Targets :
             ts'[t] # ts[t] /\ (\E u \in Targets : pc'[u] # pc[u]) =>
                pc'[t] # pc[t]]_vars

(***************************************************************************)
(* C20.  A process started through notify runs under the background       *)
(* context: after its start nothing the core or the caller of notify does, *)
(* cancelling the caller's context included, terminates it: it only ever   *)
(* exits on its own.  The notify call returns in the step that starts the  *)
(* process, which is still running then: the core does not wait for it.    *)
(***************************************************************************)
C20_BackgroundProcess ==
    /\ [](\A i \in DOMAIN procs :
            procs[i].ctx = "background" => procs[i].st # "killed")
    /\ [][ /\ \A i \in DOMAIN procs :
                procs[i].ctx = "background" /\ procs'[i] # procs[i] =>
                   /\ procs[i].st = "running"
                   /\ procs'[i] = [procs[i] EXCEPT !.st = "exited"]
                   /\ \A t \in Targets : pc'[t] = pc[t]
                   /\ cmdCall' = cmdCall /\ cancelled' = cancelled
           /\ \A t \in Targets :
                pc[t] = "dispatch" /\ pc'[t] # "dispatch"
                   /\ Len(procs') > Len(procs) =>
                   /\ procs' = Append(procs, [ctx |-> "background",
                                              argv |-> procs'[Len(procs')].argv,
                                              st |-> "running"])
                   /\ pc'[t] = "idle"
      ]_vars

\* the caller's context is done and killed the caller's process, while the
\* process started by notify is running
C20_Witness ==
    /\ cancelled
    /\ \E i, j \in DOMAIN procs :
          /\ procs[i].ctx = "background" /\ procs[i].st = "running"
          /\ procs[j].ctx = "shutdown" /\ procs[j].st = "killed"
    /\ \E t \in Targets : count[t].returns = 1

====
